---- MODULE Spec2Model ----
(***************************************************************************)
(* Model of task_manager.py: the classes Zadanie, ZadaniePiorytetowe,      *)
(* ZadanieRegularne and ManagerZadan, the text codec of zapisz_do_pliku /  *)
(* wczytaj_z_pliku, and menu option 6 (sorting by termin_wykonaia).        *)
(*                                                                         *)
(* Python str values are sequences of one-character strings; Python        *)
(* objects live in a heap and are referred to by their index (identity).   *)
(***************************************************************************)
EXTENDS Integers, Sequences, FiniteSets, TLC

VARIABLES heap, zadania, pliki, wynik

vars == <<heap, zadania, pliki, wynik>>

(***************************************************************************)
(* Bounds of the model.                                                    *)
(***************************************************************************)
\* Objects built under Spec, SpecUsun and SpecEdycja.
MaxObj == 2
\* Length of self.zadania under SpecUsun and SpecEdycja.
MaxTasks == 3
\* Objects built under SpecSort.
MaxSort == 3
\* Objects built or loaded under SpecWczytaj, SpecPlik and SpecSciezka.
MaxPlik == 3

(***************************************************************************)
(* Python values: None, bool, str, datetime.date.                          *)
(***************************************************************************)
NoDate == <<0, 0, 0>>

PyNone == [kind |-> "none", s |-> <<>>, b |-> FALSE, d |-> NoDate]

PyBool(b) == [kind |-> "bool", s |-> <<>>, b |-> b, d |-> NoDate]

PyStr(s) == [kind |-> "str", s |-> s, b |-> FALSE, d |-> NoDate]

PyDate(d) == [kind |-> "date", s |-> <<>>, b |-> FALSE, d |-> d]

\* bool(v): the truth value Python's "or", "if" and "not" use.
Truthy(v) ==
    CASE v.kind = "none" -> FALSE
      [] v.kind = "bool" -> v.b
      [] v.kind = "str" -> Len(v.s) > 0
      [] OTHER -> TRUE

DIGITS == <<"0", "1", "2", "3", "4", "5", "6", "7", "8", "9">>

IsDigit(c) == \E i \in 1..10 : DIGITS[i] = c

DigitVal(c) == (CHOOSE i \in 1..10 : DIGITS[i] = c) - 1

\* n written with exactly w decimal digits, zero padded (n < 10^w).
RECURSIVE Pad(_, _)
Pad(n, w) == IF w = 0 THEN <<>> ELSE Append(Pad(n \div 10, w - 1), DIGITS[(n % 10) + 1])

RECURSIVE NumVal(_)
NumVal(s) == IF s = <<>> THEN 0 ELSE 10 * NumVal(SubSeq(s, 1, Len(s) - 1)) + DigitVal(s[Len(s)])

AllDigits(s) == \A i \in 1..Len(s) : IsDigit(s[i])

IsLeap(y) == (y % 4 = 0) /\ ((y % 100 # 0) \/ (y % 400 = 0))

DaysIn(y, m) ==
    IF m = 2 THEN (IF IsLeap(y) THEN 29 ELSE 28)
    ELSE IF m \in {4, 6, 9, 11} THEN 30 ELSE 31

\* datetime.max.date()
DateMax == <<9999, 12, 31>>

\* d1 < d2 on datetime.date
DateLess(d1, d2) ==
    \/ d1[1] < d2[1]
    \/ d1[1] = d2[1] /\ d1[2] < d2[2]
    \/ d1[1] = d2[1] /\ d1[2] = d2[2] /\ d1[3] < d2[3]

\* str(date): YYYY-MM-DD
DateStr(d) == Pad(d[1], 4) \o <<"-">> \o Pad(d[2], 2) \o <<"-">> \o Pad(d[3], 2)

STR_None == <<"N", "o", "n", "e">>
STR_True == <<"T", "r", "u", "e">>
STR_False == <<"F", "a", "l", "s", "e">>

\* str(v), as the f-strings and str() calls of the codec render a value.
Str(v) ==
    CASE v.kind = "none" -> STR_None
      [] v.kind = "bool" -> (IF v.b THEN STR_True ELSE STR_False)
      [] v.kind = "str" -> v.s
      [] OTHER -> DateStr(v.d)

(***************************************************************************)
(* str methods used by the codec.                                          *)
(***************************************************************************)
RECURSIVE Rosnaco(_)
Rosnaco(S) ==
    IF S = {} THEN <<>>
    ELSE LET m == CHOOSE x \in S : \A y \in S : x <= y
         IN  <<m>> \o Rosnaco(S \ {m})

\* s.split(sep) for a one-character sep: the pieces between the separators,
\* always at least one.
Split(s, sep) ==
    LET cuts == <<0>> \o Rosnaco({i \in 1..Len(s) : s[i] = sep}) \o <<Len(s) + 1>>
    IN  [k \in 1..(Len(cuts) - 1) |-> SubSeq(s, cuts[k] + 1, cuts[k + 1] - 1)]

\* s.split(sep, 1): one or two parts.
SplitFirst(s, sep) ==
    LET at == {i \in 1..Len(s) : s[i] = sep}
    IN  IF at = {} THEN <<s>>
        ELSE LET i == CHOOSE x \in at : \A y \in at : x <= y
             IN  <<SubSeq(s, 1, i - 1), SubSeq(s, i + 1, Len(s))>>

\* sep.join(parts)
RECURSIVE Join(_, _)
Join(parts, sep) ==
    IF parts = <<>> THEN <<>>
    ELSE IF Len(parts) = 1 THEN parts[1]
    ELSE parts[1] \o <<sep>> \o Join(Tail(parts), sep)

IsSpace(c) == c \in {" ", "\n", "\t", "\r"}

\* s.strip()
Strip(s) ==
    LET keep == {i \in 1..Len(s) : ~IsSpace(s[i])}
    IN  IF keep = {} THEN <<>>
        ELSE SubSeq(s, CHOOSE x \in keep : \A y \in keep : x <= y,
                       CHOOSE x \in keep : \A y \in keep : x >= y)

\* datetime.strptime(s, "%Y-%m-%d").date(): four digits of year, one or two
\* of month and of day, a real calendar date; anything else is ValueError.
ParseDate(s) ==
    LET p == Split(s, "-")
        wellFormed == /\ Len(p) = 3
                      /\ Len(p[1]) = 4 /\ AllDigits(p[1])
                      /\ Len(p[2]) \in {1, 2} /\ AllDigits(p[2])
                      /\ Len(p[3]) \in {1, 2} /\ AllDigits(p[3])
        y == NumVal(p[1])
        m == NumVal(p[2])
        d == NumVal(p[3])
    IN  IF wellFormed /\ y >= 1 /\ m \in 1..12 /\ d >= 1 /\ d <= DaysIn(y, m)
        THEN [ok |-> TRUE, d |-> <<y, m, d>>]
        ELSE [ok |-> FALSE, d |-> NoDate]

(***************************************************************************)
(* Attribute dictionaries (an object's __dict__, a **kwargs mapping): an   *)
(* insertion-ordered sequence of <<name, value>> pairs with unique names.  *)
(***************************************************************************)
Has(dict, k) == \E i \in 1..Len(dict) : dict[i][1] = k

Get(dict, k) == dict[CHOOSE i \in 1..Len(dict) : dict[i][1] = k][2]

\* setattr / dict store: overwrite in place, or append a new name.
SetAttr(dict, k, v) ==
    IF Has(dict, k)
    THEN [i \in 1..Len(dict) |-> IF dict[i][1] = k THEN <<k, v>> ELSE dict[i]]
    ELSE Append(dict, <<k, v>>)

RECURSIVE SetAll(_, _)
SetAll(dict, kw) == IF kw = <<>> THEN dict ELSE SetAll(SetAttr(dict, kw[1][1], kw[1][2]), Tail(kw))

Without(dict, ks) == SelectSeq(dict, LAMBDA p : p[1] \notin ks)

K_tytul == <<"t", "y", "t", "u", "l">>
K_opis == <<"o", "p", "i", "s">>
K_termin == <<"t", "e", "r", "m", "i", "n">>
K_termin_wykonaia == K_termin \o <<"_", "w", "y", "k", "o", "n", "a", "i", "a">>
K_wykonane == <<"w", "y", "k", "o", "n", "a", "n", "e">>
K_priorytet == <<"p", "r", "i", "o", "r", "y", "t", "e", "t">>
K_powtarzalnosc == <<"p", "o", "w", "t", "a", "r", "z", "a", "l", "n", "o", "s", "c">>
K_kategoria == <<"k", "a", "t", "e", "g", "o", "r", "i", "a">>

\* 'Średni' and 'codziennie', the defaults of the two subclasses
\* (the first letter of 'Średni' is written S).
STR_Sredni == <<"S", "r", "e", "d", "n", "i">>
STR_codziennie == <<"c", "o", "d", "z", "i", "e", "n", "n", "i", "e">>

T_Zadanie == <<"Z", "a", "d", "a", "n", "i", "e">>
T_ZadaniePiorytetowe == T_Zadanie \o <<"P", "i", "o", "r", "y", "t", "e", "t", "o", "w", "e">>
T_ZadanieRegularne == T_Zadanie \o <<"R", "e", "g", "u", "l", "a", "r", "n", "e">>

(***************************************************************************)
(* The three classes.  An object is [typ, dict]; a constructor call gives  *)
(* [ok, obj], ok false when Python raises TypeError binding the arguments. *)
(***************************************************************************)
\* The termin parameter: a str is parsed leniently, anything else is kept.
TerminArg(termin) ==
    IF termin.kind = "str"
    THEN (IF ParseDate(termin.s).ok THEN PyDate(ParseDate(termin.s).d) ELSE PyNone)
    ELSE termin

\* Zadanie.__init__ body
ZadanieInit(tytul, opis, termin, kwargs) ==
    SetAll(<< <<K_tytul, tytul>>, <<K_opis, opis>>,
              <<K_termin_wykonaia, TerminArg(termin)>>,
              <<K_wykonane, PyBool(FALSE)>> >>, kwargs)

\* A keyword that repeats a positional parameter is a TypeError.
Clash(kwargs, names) == \E k \in names : Has(kwargs, k)

NewZadanie(tytul, opis, termin, kwargs) ==
    [ok |-> ~Clash(kwargs, {K_tytul, K_opis, K_termin}),
     obj |-> [typ |-> T_Zadanie, dict |-> ZadanieInit(tytul, opis, termin, kwargs)]]

NewZadaniePiorytetowe(tytul, opis, termin, kwargs) ==
    LET priorytet == IF Has(kwargs, K_priorytet) THEN Get(kwargs, K_priorytet)
                     ELSE PyStr(STR_Sredni)
        rest == Without(kwargs, {K_priorytet})
    IN  [ok |-> ~Clash(kwargs, {K_tytul, K_opis, K_termin}),
         obj |-> [typ |-> T_ZadaniePiorytetowe,
                  dict |-> SetAttr(ZadanieInit(tytul, opis, termin, rest),
                                   K_priorytet, priorytet)]]

NewZadanieRegularne(tytul, opis, termin, kwargs) ==
    LET powtarzalnosc == IF Has(kwargs, K_powtarzalnosc) THEN Get(kwargs, K_powtarzalnosc)
                         ELSE PyStr(STR_codziennie)
        rest == Without(kwargs, {K_powtarzalnosc})
    IN  [ok |-> ~Clash(kwargs, {K_tytul, K_opis, K_termin}),
         obj |-> [typ |-> T_ZadanieRegularne,
                  dict |-> SetAttr(ZadanieInit(tytul, opis, termin, rest),
                                   K_powtarzalnosc, powtarzalnosc)]]

\* A wykonany that sets the flag instead of negating it.
ToggledSets(obj) == [obj EXCEPT !.dict = SetAttr(obj.dict, K_wykonane, PyBool(TRUE))]

\* Zadanie.wykonany body, on an object
Toggled(obj) ==
    [obj EXCEPT !.dict = SetAttr(obj.dict, K_wykonane,
                                 PyBool(~Truthy(Get(obj.dict, K_wykonane))))]

(***************************************************************************)
(* ManagerZadan.  heap[i] is the object with identity i; zadania is        *)
(* self.zadania, a list of identities; 0 stands for None where an object   *)
(* is expected.  wynik records the last call: its name, the exception it   *)
(* raised (if any) and what it returned or resolved.                       *)
(***************************************************************************)
Tytul(h, i) == Get(h[i].dict, K_tytul)

Termin(h, i) == Get(h[i].dict, K_termin_wykonaia)

Wykonane(h, i) == Get(h[i].dict, K_wykonane)

\* obj in lista (identity, the classes define no __eq__)
InList(lista, i) == \E n \in 1..Len(lista) : lista[n] = i

\* A lookup that keeps the last match instead of the first.
OstatniZTytulem(h, lista, tytul) ==
    IF \E n \in 1..Len(lista) : Tytul(h, lista[n]) = tytul
    THEN lista[CHOOSE n \in 1..Len(lista) :
                 /\ Tytul(h, lista[n]) = tytul
                 /\ \A k \in (n + 1)..Len(lista) : Tytul(h, lista[k]) # tytul]
    ELSE 0

\* next((z for z in self.zadania if z.tytul == tytul), None)
PierwszyZTytulem(h, lista, tytul) ==
    IF \E n \in 1..Len(lista) : Tytul(h, lista[n]) = tytul
    THEN lista[CHOOSE n \in 1..Len(lista) :
                 /\ Tytul(h, lista[n]) = tytul
                 /\ \A k \in 1..(n - 1) : Tytul(h, lista[k]) # tytul]
    ELSE 0

\* target = zadanie or next(...)
Target(h, lista, zadanie, tytul) ==
    IF zadanie # 0 THEN zadanie ELSE PierwszyZTytulem(h, lista, tytul)

\* list.remove(x): drops the first occurrence
ListRemove(lista, x) ==
    LET n == CHOOSE k \in 1..Len(lista) : lista[k] = x /\ \A j \in 1..(k - 1) : lista[j] # x
    IN  SubSeq(lista, 1, n - 1) \o SubSeq(lista, n + 1, Len(lista))

\* The class a constructor call or the typ argument of dodaj_zadanie picks.
Construct(a) ==
    CASE a.typ = "priorytet" -> NewZadaniePiorytetowe(a.tytul, a.opis, a.termin, a.kwargs)
      [] a.typ = "regular" -> NewZadanieRegularne(a.tytul, a.opis, a.termin, a.kwargs)
      [] OTHER -> NewZadanie(a.tytul, a.opis, a.termin, a.kwargs)

\* opis or ""
OpisOrEmpty(opis) == IF Truthy(opis) THEN opis ELSE PyStr(<<>>)

\* A caller builds a task object without handing it to the manager.
Utworz(a) ==
    /\ LET r == Construct(a)
       IN  IF r.ok
           THEN /\ heap' = Append(heap, r.obj)
                /\ wynik' = [op |-> "utworz", err |-> "", cel |-> Len(heap) + 1]
           ELSE /\ heap' = heap
                /\ wynik' = [op |-> "utworz", err |-> "TypeError", cel |-> 0]
    /\ UNCHANGED <<zadania, pliki>>

\* dodaj_zadanie(tytul=..., opis=..., termin=..., typ=..., **kwargs)
DodajZadanie(a) ==
    /\ LET r == Construct([a EXCEPT !.opis = OpisOrEmpty(a.opis)])
       IN  IF r.ok
           THEN /\ heap' = Append(heap, r.obj)
                /\ zadania' = Append(zadania, Len(heap) + 1)
                /\ wynik' = [op |-> "dodaj", err |-> "", cel |-> Len(heap) + 1]
           ELSE /\ UNCHANGED <<heap, zadania>>
                /\ wynik' = [op |-> "dodaj", err |-> "TypeError", cel |-> 0]
    /\ UNCHANGED pliki

\* dodaj_zadanie(zadanie)
DodajObiekt(zadanie) ==
    /\ zadania' = Append(zadania, zadanie)
    /\ wynik' = [op |-> "dodaj_obiekt", err |-> "", cel |-> zadanie]
    /\ UNCHANGED <<heap, pliki>>

\* self.zadania after usun_zadanie(zadanie, tytul)
PoUsunieciu(h, lista, zadanie, tytul) ==
    LET target == Target(h, lista, zadanie, tytul)
    IN  IF target # 0 /\ InList(lista, target) THEN ListRemove(lista, target) ELSE lista

UsunZadanie(zadanie, tytul) ==
    /\ zadania' = PoUsunieciu(heap, zadania, zadanie, tytul)
    /\ wynik' = [op |-> "usun", err |-> "", cel |-> Target(heap, zadania, zadanie, tytul),
                 zadanie |-> zadanie]
    /\ UNCHANGED <<heap, pliki>>

\* the heap after oznacz_jako_wykonane(zadanie, tytul)
PoOznaczeniu(h, lista, zadanie, tytul) ==
    LET target == Target(h, lista, zadanie, tytul)
    IN  IF target # 0
        THEN [h EXCEPT ![target].dict = SetAttr(h[target].dict, K_wykonane, PyBool(TRUE))]
        ELSE h

OznaczJakoWykonane(zadanie, tytul) ==
    /\ heap' = PoOznaczeniu(heap, zadania, zadanie, tytul)
    /\ wynik' = [op |-> "oznacz", err |-> "", cel |-> Target(heap, zadania, zadanie, tytul)]
    /\ UNCHANGED <<zadania, pliki>>

\* An edit that tests "is not None" where the code tests truth.
EdytowaneNotNone(obj, nowy_tytul, nowy_opis, nowy_termin, kwargs) ==
    LET d1 == IF nowy_tytul # PyNone THEN SetAttr(obj.dict, K_tytul, nowy_tytul) ELSE obj.dict
        d2 == IF nowy_opis # PyNone THEN SetAttr(d1, K_opis, nowy_opis) ELSE d1
        d3 == IF nowy_termin # PyNone THEN SetAttr(d2, K_termin_wykonaia, nowy_termin) ELSE d2
    IN  [obj EXCEPT !.dict = SetAll(d3, kwargs)]

\* the object after the body of edytuj_zadanie's "if zadanie in self.zadania"
Edytowane(obj, nowy_tytul, nowy_opis, nowy_termin, kwargs) ==
    LET d1 == IF Truthy(nowy_tytul) THEN SetAttr(obj.dict, K_tytul, nowy_tytul) ELSE obj.dict
        d2 == IF Truthy(nowy_opis) THEN SetAttr(d1, K_opis, nowy_opis) ELSE d1
        d3 == IF Truthy(nowy_termin) THEN SetAttr(d2, K_termin_wykonaia, nowy_termin) ELSE d2
    IN  [obj EXCEPT !.dict = SetAll(d3, kwargs)]

\* the heap after edytuj_zadanie(zadanie, ...)
PoEdycji(h, lista, zadanie, e) ==
    IF zadanie # 0 /\ InList(lista, zadanie)
    THEN [h EXCEPT ![zadanie] = Edytowane(h[zadanie], e.nowy_tytul, e.nowy_opis,
                                          e.nowy_termin, e.kwargs)]
    ELSE h

EdytujZadanie(zadanie, e) ==
    /\ heap' = PoEdycji(heap, zadania, zadanie, e)
    /\ wynik' = [op |-> "edytuj", err |-> "", cel |-> zadanie]
    /\ UNCHANGED <<zadania, pliki>>

\* zadanie.wykonany()
Wykonany(zadanie) ==
    /\ heap' = [heap EXCEPT ![zadanie] = Toggled(heap[zadanie])]
    /\ wynik' = [op |-> "wykonany", err |-> "", cel |-> zadanie]
    /\ UNCHANGED <<zadania, pliki>>

\* key=lambda x: x.termin_wykonaia or datetime.max.date()
SortKey(h, i) == IF Truthy(Termin(h, i)) THEN Termin(h, i).d ELSE DateMax

\* sorted(lista, key=...): stable, so each element goes behind every element
\* already placed whose key is not greater than its own.
RECURSIVE Sorted(_, _)
Sorted(h, lista) ==
    IF lista = <<>> THEN <<>>
    ELSE LET n == Len(lista)
             x == lista[n]
             pre == Sorted(h, SubSeq(lista, 1, n - 1))
             pos == Cardinality({k \in 1..Len(pre) : ~DateLess(SortKey(h, x), SortKey(h, pre[k]))})
         IN  SubSeq(pre, 1, pos) \o <<x>> \o SubSeq(pre, pos + 1, Len(pre))

\* menu option 6
Sortuj ==
    /\ wynik' = [op |-> "sortuj", err |-> "", lista |-> Sorted(heap, zadania)]
    /\ UNCHANGED <<heap, zadania, pliki>>

(***************************************************************************)
(* Files.  A path is a str; pliki maps the resolved path of every regular  *)
(* file on disk to its content, Katalogi are the directories on disk.      *)
(***************************************************************************)
\* self.save_dir
SAVE_DIR == <<"/", "b", "a", "s", "e">>

Katalogi == {<<"/">>, SAVE_DIR}

\* os.path.join(a, p)
PathJoin(a, p) ==
    IF p # <<>> /\ p[1] = "/" THEN p
    ELSE IF a = <<>> \/ a[Len(a)] = "/" THEN a \o p
    ELSE a \o <<"/">> \o p

IsAbs(path) == path # <<>> /\ path[1] = "/"

\* [c for c in path.split('/') if c and c != '.']
Components(path) == SelectSeq(Split(path, "/"), LAMBDA c : c # <<>> /\ c # <<".">>)

RECURSIVE CommonPrefix(_, _)
CommonPrefix(s1, s2) ==
    IF s1 = <<>> \/ s2 = <<>> \/ s1[1] # s2[1] THEN <<>>
    ELSE <<s1[1]>> \o CommonPrefix(Tail(s1), Tail(s2))

\* os.path.commonpath([a, b]): ValueError (ok false) when one is absolute and
\* the other is not; '..' components are compared as they are written.
CommonPath(a, b) ==
    IF IsAbs(a) # IsAbs(b) THEN [ok |-> FALSE, path |-> <<>>]
    ELSE [ok |-> TRUE,
          path |-> (IF IsAbs(a) THEN <<"/">> ELSE <<>>)
                   \o Join(CommonPrefix(Components(a), Components(b)), "/")]

\* "if os.path.commonpath([self.save_dir, full_path]) != self.save_dir: raise"
Rejected(full_path) ==
    LET c == CommonPath(SAVE_DIR, full_path)
    IN  ~c.ok \/ c.path # SAVE_DIR

PathOf(comps) == <<"/">> \o Join(comps, "/")

\* The walk open() makes along an absolute path: '..' goes to the parent, and
\* every directory passed through must exist.
RECURSIVE Walk(_, _)
Walk(cur, rest) ==
    IF rest = <<>> THEN [ok |-> TRUE, path |-> PathOf(cur)]
    ELSE IF PathOf(cur) \notin Katalogi THEN [ok |-> FALSE, path |-> <<>>]
    ELSE IF rest[1] = <<".", ".">>
         THEN Walk(IF cur = <<>> THEN cur ELSE SubSeq(cur, 1, Len(cur) - 1), Tail(rest))
         ELSE Walk(Append(cur, rest[1]), Tail(rest))

Resolve(path) == Walk(<<>>, Components(path))

\* The lines "for line in f" yields, without their newline (strip() drops it).
Lines(content) ==
    IF content = <<>> THEN <<>>
    ELSE LET p == Split(content, "\n")
         IN  IF p[Len(p)] = <<>> THEN SubSeq(p, 1, Len(p) - 1) ELSE p

(***************************************************************************)
(* The codec of zapisz_do_pliku and wczytaj_z_pliku.                       *)
(***************************************************************************)
ZAREZERWOWANE == {K_tytul, K_opis, K_termin_wykonaia, K_wykonane}

RECURSIVE PairsOf(_)
PairsOf(dict) ==
    IF dict = <<>> THEN <<>>
    ELSE <<dict[1][1] \o <<"=">> \o Str(dict[1][2])>> \o PairsOf(Tail(dict))

\* ";".join(parts) + "\n" for one task; ok false when join meets a tytul or
\* opis that is no str (TypeError).
SaveLine(obj) ==
    LET tytul == Get(obj.dict, K_tytul)
        opis == Get(obj.dict, K_opis)
        parts == <<obj.typ, tytul.s, opis.s, Str(Get(obj.dict, K_termin_wykonaia))>>
                 \o PairsOf(Without(obj.dict, ZAREZERWOWANE))
                 \o <<K_wykonane \o <<"=">> \o Str(Get(obj.dict, K_wykonane))>>
    IN  [ok |-> tytul.kind = "str" /\ opis.kind = "str",
         line |-> Join(parts, ";") \o <<"\n">>]

\* What the loop of zapisz_do_pliku has written when it ends or raises.
RECURSIVE SaveAll(_, _, _)
SaveAll(h, lista, written) ==
    IF lista = <<>> THEN [err |-> "", content |-> written]
    ELSE LET r == SaveLine(h[lista[1]])
         IN  IF r.ok THEN SaveAll(h, Tail(lista), written \o r.line)
             ELSE [err |-> "TypeError", content |-> written]

\* attrs[k] = (v == "True") if v in ("True", "False") else v, pair by pair;
\* ok false when a pair has no '=' (ValueError on unpacking).
RECURSIVE Attrs(_, _)
Attrs(pairs, attrs) ==
    IF pairs = <<>> THEN [ok |-> TRUE, attrs |-> attrs]
    ELSE LET kv == SplitFirst(pairs[1], "=")
         IN  IF Len(kv) # 2 THEN [ok |-> FALSE, attrs |-> attrs]
             ELSE Attrs(Tail(pairs),
                        SetAttr(attrs, kv[1],
                                IF kv[2] \in {STR_True, STR_False}
                                THEN PyBool(kv[2] = STR_True) ELSE PyStr(kv[2])))

\* The class a record's first field picks.
ConstructNamed(typ, tytul, opis, termin, kwargs) ==
    IF typ = T_ZadaniePiorytetowe THEN NewZadaniePiorytetowe(tytul, opis, termin, kwargs)
    ELSE IF typ = T_ZadanieRegularne THEN NewZadanieRegularne(tytul, opis, termin, kwargs)
    ELSE NewZadanie(tytul, opis, termin, kwargs)

\* The task built from the fields of a record once they are decoded, or
\* the exception raised.
DecodeBuild(typ, tytul, opis, date, a) ==
    IF ~a.ok \/ ~date.ok THEN [err |-> "ValueError", obj |-> PyNone]
    ELSE LET r == ConstructNamed(typ, PyStr(tytul), PyStr(opis), PyDate(date.d), a.attrs)
         IN  IF ~r.ok THEN [err |-> "TypeError", obj |-> PyNone]
             ELSE IF Has(a.attrs, K_wykonane) /\ Truthy(Get(a.attrs, K_wykonane))
             THEN [err |-> "", obj |-> [r.obj EXCEPT !.dict =
                                           SetAttr(r.obj.dict, K_wykonane, PyBool(TRUE))]]
             ELSE [err |-> "", obj |-> r.obj]

\* typ, tytul, opis, termin_str = parts[0..3]; attr_pairs = parts[4:]
DecodeParts(parts) ==
    IF Len(parts) < 4 THEN [err |-> "IndexError", obj |-> PyNone]
    ELSE DecodeBuild(parts[1], parts[2], parts[3], ParseDate(parts[4]),
                     Attrs(SubSeq(parts, 5, Len(parts)), <<>>))

\* The body of the loop of wczytaj_z_pliku for one line: the task built, or
\* the exception raised.
DecodeLine(line) == DecodeParts(Split(Strip(line), ";"))

\* A loop that skips a record it cannot decode and goes on.
RECURSIVE LoadLoopSkipping(_, _, _)
LoadLoopSkipping(h, lista, lines) ==
    IF lines = <<>> THEN [err |-> "", heap |-> h, zadania |-> lista]
    ELSE CHOOSE res \in
             { IF r.err # "" THEN LoadLoopSkipping(h, lista, Tail(lines))
               ELSE LoadLoopSkipping(Append(h, r.obj), Append(lista, Len(h) + 1), Tail(lines)) :
               r \in {DecodeLine(lines[1])} } : TRUE

\* A loop that puts each loaded task at the front of the list.
RECURSIVE LoadLoopPrepending(_, _, _)
LoadLoopPrepending(h, lista, lines) ==
    IF lines = <<>> THEN [err |-> "", heap |-> h, zadania |-> lista]
    ELSE CHOOSE res \in
             { IF r.err # "" THEN [err |-> r.err, heap |-> h, zadania |-> lista]
               ELSE LoadLoopPrepending(Append(h, r.obj), <<Len(h) + 1>> \o lista, Tail(lines)) :
               r \in {DecodeLine(lines[1])} } : TRUE

\* The loop of wczytaj_z_pliku: every decoded task is appended at once, and
\* the first exception ends the loop.  (r ranges over the one decoding of
\* the first line.)
RECURSIVE LoadLoop(_, _, _)
LoadLoop(h, lista, lines) ==
    IF lines = <<>> THEN [err |-> "", heap |-> h, zadania |-> lista]
    ELSE CHOOSE res \in
             { IF r.err # "" THEN [err |-> r.err, heap |-> h, zadania |-> lista]
               ELSE LoadLoop(Append(h, r.obj), Append(lista, Len(h) + 1), Tail(lines)) :
               r \in {DecodeLine(lines[1])} } : TRUE

\* open(full_path, mode): the resolved path, or the OSError raised.
Open(full_path, mode) ==
    LET r == Resolve(full_path)
    IN  IF ~r.ok THEN [err |-> "FileNotFoundError", path |-> <<>>]
        ELSE IF r.path \in Katalogi THEN [err |-> "IsADirectoryError", path |-> <<>>]
        ELSE IF mode = "r" /\ r.path \notin DOMAIN pliki
             THEN [err |-> "FileNotFoundError", path |-> <<>>]
        ELSE [err |-> "", path |-> r.path]

\* zapisz_do_pliku(nazwa_pliku)
ZapiszDoPliku(nazwa_pliku) ==
    LET full_path == PathJoin(SAVE_DIR, nazwa_pliku)
        f == Open(full_path, "w")
        w == SaveAll(heap, zadania, <<>>)
    IN  /\ IF Rejected(full_path)
           THEN /\ wynik' = [op |-> "zapisz", err |-> "ValueError", otwarty |-> <<>>]
                /\ pliki' = pliki
           ELSE IF f.err # ""
           THEN /\ wynik' = [op |-> "zapisz", err |-> f.err, otwarty |-> <<>>]
                /\ pliki' = pliki
           ELSE /\ wynik' = [op |-> "zapisz", err |-> w.err, otwarty |-> f.path]
                /\ pliki' = [q \in DOMAIN pliki \cup {f.path} |->
                                IF q = f.path THEN w.content ELSE pliki[q]]
        /\ UNCHANGED <<heap, zadania>>

\* wczytaj_z_pliku(nazwa_pliku)
WczytajZPliku(nazwa_pliku) ==
    LET full_path == PathJoin(SAVE_DIR, nazwa_pliku)
        f == Open(full_path, "r")
    IN  /\ IF Rejected(full_path)
           THEN /\ wynik' = [op |-> "wczytaj", err |-> "ValueError", otwarty |-> <<>>]
                /\ UNCHANGED <<heap, zadania>>
           ELSE IF f.err # ""
           THEN /\ wynik' = [op |-> "wczytaj", err |-> f.err, otwarty |-> <<>>]
                /\ UNCHANGED <<heap, zadania>>
           ELSE \E r \in {LoadLoop(heap, zadania, Lines(pliki[f.path]))} :
                    /\ wynik' = [op |-> "wczytaj", err |-> r.err, otwarty |-> f.path]
                    /\ heap' = r.heap
                    /\ zadania' = r.zadania
        /\ UNCHANGED pliki

\* manager = ManagerZadan(): a fresh manager on the same directory; the tasks
\* of the old one are no longer referenced.
NowyManager ==
    /\ heap' = <<>>
    /\ zadania' = <<>>
    /\ wynik' = [op |-> "init", err |-> ""]
    /\ UNCHANGED pliki

(***************************************************************************)
(* Inputs of the calls.                                                    *)
(***************************************************************************)
D1 == <<2025, 5, 15>>
D2 == <<2025, 5, 16>>

TytulA == PyStr(<<"a">>)
TytulB == PyStr(<<"b">>)
TytulC == PyStr(<<"c">>)

\* Arguments of a constructor call or of dodaj_zadanie(tytul=..., ...).
Probki ==
    { [typ |-> "zwykle", tytul |-> TytulA, opis |-> PyNone, termin |-> PyNone,
       kwargs |-> <<>>],
      [typ |-> "priorytet", tytul |-> TytulA, opis |-> PyStr(<<"d">>),
       termin |-> PyStr(DateStr(D1)), kwargs |-> << <<K_wykonane, PyBool(TRUE)>> >>],
      [typ |-> "regular", tytul |-> TytulB, opis |-> PyStr(<<>>), termin |-> PyDate(D2),
       kwargs |-> << <<K_kategoria, PyStr(<<"F">>)>> >>] }

\* Titles a caller looks tasks up by.
Tytuly == {TytulA, TytulB, TytulC}

\* Arguments of edytuj_zadanie after the task.
Edycje ==
    { [nowy_tytul |-> TytulC, nowy_opis |-> PyStr(<<>>), nowy_termin |-> PyNone,
       kwargs |-> <<>>],
      [nowy_tytul |-> PyNone, nowy_opis |-> PyStr(<<"e">>), nowy_termin |-> PyDate(D2),
       kwargs |-> <<>>],
      [nowy_tytul |-> PyStr(<<>>), nowy_opis |-> PyNone, nowy_termin |-> PyNone,
       kwargs |-> << <<K_wykonane, PyBool(TRUE)>>, <<K_kategoria, PyStr(<<"G">>)>> >>] }

K_pilne == <<"p", "i", "l", "n", "e">>

\* Arguments of dodaj_zadanie under the specifications with files: the
\* three classes, a task without a date, text and boolean extras.
ProbkiPlik ==
    { [typ |-> "zwykle", tytul |-> TytulA, opis |-> PyNone, termin |-> PyNone,
       kwargs |-> <<>>],
      [typ |-> "priorytet", tytul |-> TytulB, opis |-> PyStr(<<"d">>),
       termin |-> PyStr(DateStr(D1)),
       kwargs |-> << <<K_priorytet, PyStr(<<"W">>)>>, <<K_kategoria, PyStr(<<"F">>)>> >>],
      [typ |-> "regular", tytul |-> TytulC, opis |-> PyStr(<<>>), termin |-> PyDate(D2),
       kwargs |-> << <<K_pilne, PyBool(TRUE)>> >>] }

\* The object dodaj_zadanie builds from a.
Zbudowane(a) == Construct([a EXCEPT !.opis = OpisOrEmpty(a.opis)]).obj

ProbkaBezTerminu == CHOOSE a \in ProbkiPlik : a.typ = "zwykle"
ProbkaPriorytet == CHOOSE a \in ProbkiPlik : a.typ = "priorytet"
ProbkaRegular == CHOOSE a \in ProbkiPlik : a.typ = "regular"

\* Records found on disk: two that zapisz_do_pliku wrote (one of a task that
\* is done), one with a one-digit month and day, and four that cannot be
\* decoded: too few fields, the date of a task without one, a month out of
\* range, a pair without '='.
REC_Priorytet == SaveLine(Zbudowane(ProbkaPriorytet)).line
REC_Regular == SaveLine(Toggled(Zbudowane(ProbkaRegular))).line
REC_Luzna == T_Zadanie \o <<";", "a", ";", ";", "2", "0", "2", "5", "-", "5", "-", "1", ";">>
             \o K_wykonane \o <<"=">> \o STR_False \o <<"\n">>
REC_Krotki == T_Zadanie \o <<";", "b", "\n">>
REC_BezTerminu == SaveLine(Zbudowane(ProbkaBezTerminu)).line
REC_Miesiac == T_Zadanie \o <<";", "a", ";", ";", "2", "0", "2", "5", "-", "1", "3", "-", "0", "1", "\n">>
REC_Para == T_Zadanie \o <<";", "a", ";", ";">> \o DateStr(D1) \o <<";">> \o K_pilne \o <<"\n">>

N_z == <<"z">>
N_ok == <<"o", "k">>
N_luzna == <<"l", "u">>
N_krotki == <<"k", "r">>
N_termin == <<"t", "e">>
N_miesiac == <<"m", "i">>
N_para == <<"p", "a">>
N_brak == <<"b", "r", "a", "k">>

InBase(nazwa) == SAVE_DIR \o <<"/">> \o nazwa

\* The files on disk when the program starts.
PlikiPoczatkowe ==
    [q \in {InBase(N_ok), InBase(N_luzna), InBase(N_krotki), InBase(N_termin), InBase(N_miesiac),
            InBase(N_para), <<"/", "z">>} |->
        CASE q = InBase(N_ok) -> REC_Priorytet \o REC_Regular
          [] q = InBase(N_luzna) -> REC_Luzna
          [] q = InBase(N_krotki) -> REC_Priorytet \o REC_Krotki \o REC_Regular
          [] q = InBase(N_termin) -> REC_Regular \o REC_Priorytet \o REC_BezTerminu \o REC_Regular
          [] q = InBase(N_miesiac) -> REC_Miesiac \o REC_Priorytet
          [] q = InBase(N_para) -> REC_Regular \o REC_Para \o REC_Para
          [] OTHER -> REC_Priorytet]

\* File names passed to wczytaj_z_pliku under SpecWczytaj.
NazwyWczytaj == {N_ok, N_luzna, N_krotki, N_termin, N_miesiac, N_para, N_brak}

\* File names passed to both calls under SpecSciezka: inside save_dir, out
\* of it by '..', absolute, out and back in, through a missing directory.
NazwySciezki ==
    { N_z,
      <<".", ".", "/", "z">>,
      <<"/", "z">>,
      <<".", ".", "/", "b", "a", "s", "e", "/", "z">>,
      <<"x", "/", ".", ".", "/", "z">> }

Init ==
    /\ heap = <<>>
    /\ zadania = <<>>
    /\ pliki = PlikiPoczatkowe
    /\ wynik = [op |-> "init", err |-> ""]

Obiekty == 1..Len(heap)

\* Objects the manager does not hold.
Obce == {z \in Obiekty : ~InList(zadania, z)}

(***************************************************************************)
(* Spec: tasks are built, added, removed, marked and toggled; edytuj is    *)
(* called on tasks the manager does not hold.                              *)
(***************************************************************************)
Next ==
    \/ \E a \in Probki : Len(heap) < MaxObj /\ Utworz(a)
    \/ \E a \in Probki : Len(heap) < MaxObj /\ DodajZadanie(a)
    \/ \E z \in Obiekty : UsunZadanie(z, PyNone)
    \/ \E t \in Tytuly : UsunZadanie(0, t)
    \/ \E z \in Obiekty : OznaczJakoWykonane(z, PyNone)
    \/ \E t \in Tytuly : OznaczJakoWykonane(0, t)
    \/ \E z \in Obce, e \in Edycje : EdytujZadanie(z, e)
    \/ \E z \in Obiekty : Wykonany(z)

Spec == Init /\ [][Next]_vars

(***************************************************************************)
(* SpecUsun: tasks are built, added (an object possibly more than once)    *)
(* and removed.                                                            *)
(***************************************************************************)
NextUsun ==
    \/ \E a \in Probki : Len(heap) < MaxObj /\ Utworz(a)
    \/ \E a \in Probki : Len(heap) < MaxObj /\ Len(zadania) < MaxTasks /\ DodajZadanie(a)
    \/ \E z \in Obiekty : Len(zadania) < MaxTasks /\ DodajObiekt(z)
    \/ \E z \in Obiekty : UsunZadanie(z, PyNone)
    \/ \E t \in Tytuly : UsunZadanie(0, t)

SpecUsun == Init /\ [][NextUsun]_vars

(***************************************************************************)
(* Properties checked under Spec and SpecUsun.                              *)
(***************************************************************************)
MaTytul(t) == \E n \in 1..Len(zadania) : Tytul(heap, zadania[n]) = t

\* C4: usun_zadanie, oznacz_jako_wykonane and edytuj_zadanie called with a
\* title no task has, or with an object the manager does not hold, change
\* neither the collection nor any field of any object (the object passed in
\* included).
NotFoundIsNoOp ==
    [][ /\ \A z \in Obce :
              (/\ wynik'.op \in {"usun", "oznacz", "edytuj"}
               /\ \/ UsunZadanie(z, PyNone)
                  \/ OznaczJakoWykonane(z, PyNone)
                  \/ \E e \in Edycje : EdytujZadanie(z, e))
              => (heap' = heap /\ zadania' = zadania)
        /\ \A t \in Tytuly :
              (/\ wynik'.op \in {"usun", "oznacz"}
               /\ ~MaTytul(t)
               /\ (UsunZadanie(0, t) \/ OznaczJakoWykonane(0, t)))
              => (heap' = heap /\ zadania' = zadania) ]_vars

\* C5: right after construction (by a constructor call or by dodaj_zadanie
\* with keyword arguments) wykonane is False, whatever the extra attributes.
DoneFalseAfterConstruction ==
    (wynik.op \in {"utworz", "dodaj"} /\ wynik.err = "")
        => Wykonane(heap, wynik.cel) = PyBool(FALSE)

\* C8: wykonany negates wykonane, a second call gives the object back as it
\* was, and nothing else changes: no other attribute of the object, no
\* other object, not the collection.
ToggleIsInvolution ==
    [][ \A z \in Obiekty :
            (wynik'.op = "wykonany" /\ wynik'.cel = z /\ Wykonany(z)) =>
                /\ Wykonane(heap', z) = PyBool(~Truthy(Wykonane(heap, z)))
                /\ Toggled(heap'[z]) = heap[z]
                /\ heap'[z].typ = heap[z].typ
                /\ Len(heap'[z].dict) = Len(heap[z].dict)
                /\ \A i \in 1..Len(heap[z].dict) :
                       heap[z].dict[i][1] # K_wykonane => heap'[z].dict[i] = heap[z].dict[i]
                /\ Len(heap') = Len(heap)
                /\ \A o \in Obiekty \ {z} : heap'[o] = heap[o]
                /\ zadania' = zadania
                /\ pliki' = pliki ]_vars

\* C8 witness: wykonany has just turned a done task of the manager back to
\* not done.
ToggledBack ==
    /\ wynik.op = "wykonany"
    /\ InList(zadania, wynik.cel)
    /\ Wykonane(heap, wynik.cel) = PyBool(FALSE)
    /\ Has(heap[wynik.cel].dict, K_kategoria)
    /\ \E o \in Obiekty \ {wynik.cel} : Wykonane(heap, o) = PyBool(TRUE)

\* C10: usun_zadanie(tytul=t), when some task has title t, removes exactly
\* the earliest such task: the tasks before it and after it stay, in order,
\* and the length drops by one.
RemoveByTitleTakesFirst ==
    [][ \A t \in Tytuly :
            (wynik'.op = "usun" /\ wynik'.zadanie = 0 /\ UsunZadanie(0, t) /\ MaTytul(t)) =>
                LET n == CHOOSE k \in 1..Len(zadania) :
                             /\ Tytul(heap, zadania[k]) = t
                             /\ \A j \in 1..(k - 1) : Tytul(heap, zadania[j]) # t
                IN  /\ Len(zadania') = Len(zadania) - 1
                    /\ \A i \in 1..(n - 1) : zadania'[i] = zadania[i]
                    /\ \A i \in n..(Len(zadania) - 1) : zadania'[i] = zadania[i + 1]
                    /\ heap' = heap ]_vars

\* C10 witness: a removal by title has found its task, and a task with the
\* same title is still in the collection.
RemovedOneOfTwo ==
    /\ wynik.op = "usun"
    /\ wynik.zadanie = 0
    /\ wynik.cel # 0
    /\ ~InList(zadania, wynik.cel)
    /\ MaTytul(Tytul(heap, wynik.cel))

(***************************************************************************)
(* SpecEdycja: tasks are added and edited.                                 *)
(***************************************************************************)
NextEdycja ==
    \/ \E a \in Probki : Len(heap) < MaxObj /\ Len(zadania) < MaxTasks /\ DodajZadanie(a)
    \/ \E z \in Obiekty, e \in Edycje : EdytujZadanie(z, e)

SpecEdycja == Init /\ [][NextEdycja]_vars

\* An argument that is given and is neither None nor the empty string.
Provided(v) == v.kind # "none" /\ ~(v.kind = "str" /\ v.s = <<>>)

Attr(obj, k) == Get(obj.dict, k)

\* C6: edytuj_zadanie on a task of the manager overwrites tytul, opis and
\* termin_wykonaia each exactly when its argument is provided and non-empty,
\* and changes nothing else: not wykonane or any other attribute (unless the
\* keyword arguments name it), not the collection, not another task.
EditOverwritesWhatIsProvided ==
    [][ \A z \in Obiekty, e \in Edycje :
            (wynik'.op = "edytuj" /\ wynik'.cel = z /\ EdytujZadanie(z, e) /\ InList(zadania, z)) =>
                LET new == heap'[z]
                    old == heap[z]
                    want(k, arg) == IF Has(e.kwargs, k) THEN Get(e.kwargs, k)
                                    ELSE IF Provided(arg) THEN arg ELSE Attr(old, k)
                IN  /\ Attr(new, K_tytul) = want(K_tytul, e.nowy_tytul)
                    /\ Attr(new, K_opis) = want(K_opis, e.nowy_opis)
                    /\ Attr(new, K_termin_wykonaia) = want(K_termin_wykonaia, e.nowy_termin)
                    /\ new.typ = old.typ
                    /\ \A i \in 1..Len(old.dict) :
                           LET k == old.dict[i][1]
                           IN  (k \notin {K_tytul, K_opis, K_termin_wykonaia} /\ ~Has(e.kwargs, k))
                                   => new.dict[i] = old.dict[i]
                    /\ \A i \in 1..Len(new.dict) :
                           Has(old.dict, new.dict[i][1]) \/ Has(e.kwargs, new.dict[i][1])
                    /\ zadania' = zadania
                    /\ Len(heap') = Len(heap)
                    /\ \A o \in Obiekty \ {z} : heap'[o] = heap[o] ]_vars

\* C6 witness: an edit with a new title and an empty description has
\* renamed a task and kept its description.
RenamedKeepingOpis ==
    /\ wynik.op = "edytuj"
    /\ InList(zadania, wynik.cel)
    /\ Tytul(heap, wynik.cel) = TytulC
    /\ Attr(heap[wynik.cel], K_opis) = PyStr(<<"d">>)
    /\ Wykonane(heap, wynik.cel) = PyBool(TRUE)
    /\ \E o \in Obiekty \ {wynik.cel} : Tytul(heap, o) # TytulC

(***************************************************************************)
(* SpecSort: tasks with and without dates are added and removed, and the   *)
(* list is printed sorted by termin_wykonaia.                              *)
(***************************************************************************)
ProbkiSort ==
    { [typ |-> "zwykle", tytul |-> TytulA, opis |-> PyNone, termin |-> PyNone,
       kwargs |-> <<>>],
      [typ |-> "zwykle", tytul |-> TytulB, opis |-> PyNone, termin |-> PyDate(D2),
       kwargs |-> <<>>],
      [typ |-> "priorytet", tytul |-> TytulC, opis |-> PyNone, termin |-> PyDate(D1),
       kwargs |-> <<>>],
      [typ |-> "regular", tytul |-> TytulA, opis |-> PyNone, termin |-> PyDate(DateMax),
       kwargs |-> <<>>] }

NextSort ==
    \/ \E a \in ProbkiSort : Len(heap) < MaxSort /\ DodajZadanie(a)
    \/ \E t \in Tytuly : UsunZadanie(0, t)
    \/ Sortuj

SpecSort == Init /\ [][NextSort]_vars

BezTerminu(i) == Termin(heap, i) = PyNone

\* lista is zs rearranged by the index permutation p.
Rearranged(lista, zs, p) ==
    /\ Len(lista) = Len(zs)
    /\ \A i, j \in 1..Len(zs) : i # j => p[i] # p[j]
    /\ \A k \in 1..Len(zs) : lista[k] = zs[p[k]]

Ascending(lista) ==
    \A i, j \in 1..Len(lista) :
        (i < j /\ ~BezTerminu(lista[i]) /\ ~BezTerminu(lista[j]))
            => ~DateLess(Termin(heap, lista[j]).d, Termin(heap, lista[i]).d)

\* lista is zs sorted by due date as specified: a permutation of the tasks, ascending by
\* date, every task without a date after every task with one, tasks with
\* equal or missing dates in insertion order.
SortedAsClaimed(lista, zs) ==
    \E p \in [1..Len(zs) -> 1..Len(zs)] :
        /\ Rearranged(lista, zs, p)
        /\ Ascending(lista)
        /\ \A i, j \in 1..Len(lista) :
               (BezTerminu(lista[i]) /\ ~BezTerminu(lista[j])) => j < i
        /\ \A i, j \in 1..Len(lista) :
               (/\ i < j
                /\ \/ BezTerminu(lista[i]) /\ BezTerminu(lista[j])
                   \/ /\ ~BezTerminu(lista[i]) /\ ~BezTerminu(lista[j])
                      /\ Termin(heap, lista[i]) = Termin(heap, lista[j]))
                   => p[i] < p[j]

\* C7: sorting by due date yields a permutation of the manager's tasks in
\* ascending order of date, every task without a date after every task with
\* one, ties in insertion order, and leaves the stored order unchanged.
SortPutsUndatedLast ==
    [][ Sortuj => (/\ SortedAsClaimed(wynik'.lista, zadania)
                   /\ zadania' = zadania /\ heap' = heap) ]_vars

(***************************************************************************)
(* SpecWczytaj: tasks are added and files found on disk are loaded.        *)
(***************************************************************************)
NextWczytaj ==
    \/ \E a \in ProbkiPlik : Len(heap) < MaxPlik /\ DodajZadanie(a)
    \/ \E n \in NazwyWczytaj : WczytajZPliku(n) /\ Len(heap') <= MaxPlik
    \/ NowyManager

SpecWczytaj == Init /\ [][NextWczytaj]_vars

(***************************************************************************)
(* SpecPlik: tasks are added and marked, saved to a file of save_dir, and  *)
(* the file is loaded, into the same manager or a fresh one.               *)
(***************************************************************************)
NextPlik ==
    \/ \E a \in ProbkiPlik : Len(heap) < MaxPlik /\ DodajZadanie(a)
    \/ OznaczJakoWykonane(0, TytulB)
    \/ ZapiszDoPliku(N_z)
    \/ WczytajZPliku(N_z) /\ Len(heap') <= MaxPlik
    \/ NowyManager

SpecPlik == Init /\ [][NextPlik]_vars

(***************************************************************************)
(* SpecSciezka: one kind of task, saved and loaded under file names that   *)
(* stay in save_dir or leave it.                                           *)
(***************************************************************************)
NextSciezka ==
    \/ Len(heap) < MaxPlik /\ DodajZadanie(ProbkaPriorytet)
    \/ \E n \in NazwySciezki : ZapiszDoPliku(n)
    \/ \E n \in NazwySciezki : WczytajZPliku(n) /\ Len(heap') <= MaxPlik
    \/ NowyManager

SpecSciezka == Init /\ [][NextSciezka]_vars

(***************************************************************************)
(* Properties checked under SpecSciezka, SpecPlik and SpecWczytaj.         *)
(***************************************************************************)
\* path lies under save_dir
Inside(path) ==
    /\ Len(path) > Len(SAVE_DIR) + 1
    /\ SubSeq(path, 1, Len(SAVE_DIR) + 1) = SAVE_DIR \o <<"/">>

\* C1: zapisz_do_pliku and wczytaj_z_pliku open no file whose resolved path
\* ('..' components followed) lies outside save_dir, and no file outside
\* save_dir is ever created or written.
PathConfined ==
    /\ (wynik.op \in {"zapisz", "wczytaj"} /\ wynik.otwarty # <<>>) => Inside(wynik.otwarty)
    /\ \A q \in DOMAIN pliki :
           ~Inside(q) => (q \in DOMAIN PlikiPoczatkowe /\ pliki[q] = PlikiPoczatkowe[q])

\* The same class and the same attribute mapping.
SameTask(x, y) ==
    /\ x.typ = y.typ
    /\ Len(x.dict) = Len(y.dict)
    /\ \A i \in 1..Len(x.dict) :
           Has(y.dict, x.dict[i][1]) /\ Get(y.dict, x.dict[i][1]) = x.dict[i][2]

\* C2: what zapisz_do_pliku has just written, loaded into a fresh manager,
\* loads without error and gives the same tasks in the same order: class,
\* tytul, opis, termin_wykonaia, wykonane and extras, value for value.
RoundTrip ==
    (wynik.op = "zapisz" /\ wynik.err = "") =>
        LET r == LoadLoop(<<>>, <<>>, Lines(pliki[wynik.otwarty]))
        IN  /\ r.err = ""
            /\ Len(r.zadania) = Len(zadania)
            /\ \A i \in 1..Len(zadania) : SameTask(r.heap[r.zadania[i]], heap[zadania[i]])

\* The records of a file: its newline-terminated lines and a last
\* unterminated one.
RecordCount(content) ==
    Cardinality({i \in 1..Len(content) : content[i] = "\n"})
        + (IF content # <<>> /\ content[Len(content)] # "\n" THEN 1 ELSE 0)

Field(line, i) == Split(Strip(line), ";")[i]

\* C3: a load that succeeds on a file of M records, into a manager holding N
\* tasks, leaves those N tasks in place and unchanged and appends M new
\* tasks behind them, in file order.
LoadIsAdditive ==
    [][ \A n \in NazwyWczytaj :
            (/\ wynik'.op = "wczytaj" /\ wynik'.err = ""
             /\ wynik'.otwarty = InBase(n)
             /\ WczytajZPliku(n)) =>
                \A lines \in {Lines(pliki[InBase(n)])} :
                \A M \in {RecordCount(pliki[InBase(n)])} :
                    /\ Len(zadania') = Len(zadania) + M
                    /\ \A i \in 1..Len(zadania) : zadania'[i] = zadania[i]
                    /\ Len(heap') = Len(heap) + M
                    /\ \A z \in Obiekty : heap'[z] = heap[z]
                    /\ \A k \in 1..M :
                           /\ zadania'[Len(zadania) + k] = Len(heap) + k
                           /\ heap'[Len(heap) + k].typ = Field(lines[k], 1)
                           /\ Tytul(heap', Len(heap) + k) = PyStr(Field(lines[k], 2)) ]_vars

\* C3 witness: a load of two records has succeeded in a manager that held a
\* task added before (one without a date, which no record gives).
LoadedBehindExisting ==
    /\ wynik.op = "wczytaj"
    /\ wynik.err = ""
    /\ Len(zadania) = 3
    /\ Termin(heap, zadania[1]) = PyNone
    /\ Tytul(heap, zadania[2]) = TytulB
    /\ Tytul(heap, zadania[3]) = TytulC

\* A record wczytaj_z_pliku cannot decode: fewer than four fields, a date
\* strptime("%Y-%m-%d") rejects, or a pair without '='.
Defective(line) ==
    LET f == Split(Strip(line), ";")
    IN  \/ Len(f) < 4
        \/ ~ParseDate(f[4]).ok
        \/ \E i \in 5..Len(f) : \A j \in 1..Len(f[i]) : f[i][j] # "="

====
